---- MODULE Spec2Model ----
(***************************************************************************)
(* Model of app.py of the Food-Calorie-Calculator: the module-level        *)
(* calorie table, the meal analysis analyze_meal_data and the two Flask     *)
(* routes "/" and "/analyze".                                               *)
(*                                                                          *)
(* Representation.                                                          *)
(*  - A Python str is a sequence of one-character strings; None is a       *)
(*    tagged value.  A JSON value of an entry is a record [t, v] whose tag  *)
(*    t is its JSON type.                                                   *)
(*  - A float is an exact fraction [t |-> "num", n, d] in lowest terms     *)
(*    (rounding of binary floating point is not modelled); None is          *)
(*    [t |-> "none", n |-> 0, d |-> 1]; a standard deviation is the square  *)
(*    root of a fraction, [t |-> "sqrt", n, d].                             *)
(*  - A DataFrame is the sequence of its rows in file order.  The           *)
(*    calories_per_g column holds calories_per_100g / 100; it is carried    *)
(*    as the fraction calories_per_100g over Hundred.                       *)
(*  - The dict returned by analyze_meal_data is a record with exactly the   *)
(*    dict's keys; an exception leaving the function is the record          *)
(*    [exception |-> name].                                                 *)
(*                                                                          *)
(* Inputs.  The tables have complete rows and names that are unique up to   *)
(* letter case; a submitted name is a string or absent, a submitted         *)
(* quantity is a number, a string, null or absent.                          *)
(*                                                                          *)
(* Specifications.  Spec: any request bodies of at most MaxEntries entries  *)
(* over the small tables.  SpecHist: the same server with the history of    *)
(* its analyses.  SpecSel: well-formed bodies of at most MaxSelEntries      *)
(* entries over a table of six rows, where the lists are cut to n_top.      *)
(***************************************************************************)
EXTENDS Integers, Sequences, FiniteSets, TLC

VARIABLES calorie_data, route, meal_items, response, first_call, calls

vars == <<calorie_data, route, meal_items, response, first_call, calls>>

(***************************************************************************)
(* Bounds of the model.                                                     *)
(***************************************************************************)
MaxEntries == 2

MaxHistEntries == 2

MaxSelEntries == 6

MaxCalls == 3

(***************************************************************************)
(* Python values.                                                           *)
(***************************************************************************)
Hundred == 100

n_top == 5

PyNone == [t |-> "none", v |-> <<>>]

PyStr(s) == [t |-> "str", v |-> s]

JsonMissing == [t |-> "missing", v |-> 0]

JsonNull == [t |-> "none", v |-> 0]

JsonString == [t |-> "str", v |-> 0]

JsonNumber(k) == [t |-> "num", v |-> k]

RECURSIVE GCD(_, _)
GCD(a, b) == IF b = 0 THEN a ELSE GCD(b, a % b)

Abs(a) == IF a < 0 THEN -a ELSE a

\* the float n/d, d > 0
Float(n, d) ==
    LET g == IF n = 0 THEN d ELSE GCD(Abs(n), d)
    IN  [t |-> "num", n |-> n \div g, d |-> d \div g]

NoneValue == [t |-> "none", n |-> 0, d |-> 1]

Sqrt(n, d) ==
    LET g == IF n = 0 THEN d ELSE GCD(Abs(n), d)
    IN  [t |-> "sqrt", n |-> n \div g, d |-> d \div g]

UpperToLower ==
    [A |-> "a", B |-> "b", C |-> "c", D |-> "d", E |-> "e", F |-> "f",
     G |-> "g", H |-> "h", I |-> "i", J |-> "j", K |-> "k", L |-> "l",
     M |-> "m", N |-> "n", O |-> "o", P |-> "p", Q |-> "q", R |-> "r",
     S |-> "s", T |-> "t", U |-> "u", V |-> "v", W |-> "w", X |-> "x",
     Y |-> "y", Z |-> "z"]

\* str.lower()
lower(s) ==
    [i \in DOMAIN s |-> IF s[i] \in DOMAIN UpperToLower THEN UpperToLower[s[i]] ELSE s[i]]

(***************************************************************************)
(* The names of the model's foods and the tables the loader can leave in    *)
(* calorie_data.                                                            *)
(***************************************************************************)
Apple == <<"A", "p", "p", "l", "e">>

apple == <<"a", "p", "p", "l", "e">>

Banana == <<"B", "a", "n", "a", "n", "a">>

banana == <<"b", "a", "n", "a", "n", "a">>

Rice == <<"R", "i", "c", "e">>

Mango == <<"M", "a", "n", "g", "o">>

Egg == <<"E", "g", "g">>

Milk == <<"M", "i", "l", "k">>

Oats == <<"O", "a", "t", "s">>

\* one row of the loaded frame: food_item, calories_per_100g and the derived calories_per_g
Row(name, kcal) ==
    [food_item |-> name, calories_per_100g |-> kcal, calories_per_g |-> Float(kcal, Hundred)]

EmptyFrame == <<>>

ExampleTable == <<Row(Apple, 52), Row(Banana, 89), Row(Rice, 130)>>

TiedTable == <<Row(banana, 89), Row(Apple, 89)>>

LargeTable ==
    <<Row(Apple, 52), Row(Banana, 89), Row(Rice, 130), Row(Egg, 155),
      Row(Milk, 42), Row(Oats, 89)>>

\* DataFrame.empty
empty(df) == Len(df) = 0

(***************************************************************************)
(* analyze_meal_data: the lookup pass over the meal items.                  *)
(***************************************************************************)
\* item.get('food_item'): None when the key is absent (or null)
get_food_item(item) ==
    IF item.food_item.t = "str" THEN item.food_item ELSE PyNone

\* item.get('quantity', 0): the default 0 only when the key is absent
get_quantity(item) ==
    IF item.quantity.t = "missing" THEN JsonNumber(0) ELSE item.quantity

\* truth value of food_item_name: None and '' are falsy
truthy(food_item_name) ==
    food_item_name.t = "str" /\ Len(food_item_name.v) > 0

\* quantity_grams > 0 raises TypeError unless quantity_grams is a number
compares_with_int(quantity_grams) == quantity_grams.t = "num"

\* calorie_data_df[calorie_data_df['food_item'].str.lower() == food_item_name.lower()]
calorie_row(calorie_data_df, food_item_name) ==
    SelectSeq(calorie_data_df, LAMBDA row : lower(row.food_item) = lower(food_item_name))

\* the locals after line 63; total_calories is sum of quantity * calories_per_g, kept
\* as the numerator over Hundred
total_calories_init == 0

selected_food_items_list_init == <<>>

LoopInit ==
    [total_calories |-> total_calories_init,
     selected_food_items_list |-> selected_food_items_list_init,
     raised |-> FALSE]

\* one iteration of the for loop (lines 66-92) from the locals acc.  A frame that is
\* not empty was built by lines 26-33 and has the calories_per_g column, so the test of
\* line 76 succeeds
LoopBody(acc, item, calorie_data_df) ==
    LET food_item_name == get_food_item(item)
        quantity_grams == get_quantity(item)
    IN  IF ~truthy(food_item_name)
        THEN acc                                      \* "Invalid item format"
        ELSE IF ~compares_with_int(quantity_grams)
        THEN [acc EXCEPT !.raised = TRUE]             \* TypeError at line 69
        ELSE IF ~(quantity_grams.v > 0)
        THEN acc                                      \* "zero or missing. Skipping."
        ELSE LET rows == calorie_row(calorie_data_df, food_item_name.v)
             IN  IF empty(rows)
                 THEN acc                             \* "not found in data"
                 ELSE LET energy_per_gram == rows[1].calories_per_g
                          \* quantity * (n/d), on the common denominator Hundred
                          calories == quantity_grams.v * energy_per_gram.n
                                          * (Hundred \div energy_per_gram.d)
                      IN  [acc EXCEPT
                             !.total_calories = @ + calories,
                             !.selected_food_items_list = Append(@, food_item_name.v)]

\* the for loop: items left to right, ended by the first exception
RECURSIVE Loop(_, _, _, _)
Loop(acc, meal_items_, i, calorie_data_df) ==
    IF acc.raised \/ i > Len(meal_items_)
    THEN acc
    ELSE Loop(LoopBody(acc, meal_items_[i], calorie_data_df), meal_items_, i + 1,
              calorie_data_df)

(***************************************************************************)
(* analyze_meal_data: the statistics over the selected rows.                *)
(***************************************************************************)
\* set(selected_food_items_list)
unique_selected_food_items(selected) == {selected[i] : i \in DOMAIN selected}

\* calorie_data_df[calorie_data_df['food_item'].isin(unique_selected_food_items)]
selected_data_for_stats(calorie_data_df, selected) ==
    SelectSeq(calorie_data_df,
              LAMBDA row : row.food_item \in unique_selected_food_items(selected))

RECURSIVE SeqSum(_)
SeqSum(s) == IF Len(s) = 0 THEN 0 ELSE Head(s) + SeqSum(Tail(s))

column(rows) == [i \in DOMAIN rows |-> rows[i].calories_per_100g]

Min2(a, b) == IF a < b THEN a ELSE b

\* position of row i when the rows are ordered by decreasing calories_per_100g, rows
\* of equal value in frame order (keep='first')
RankLargest(rows, i) ==
    1 + Cardinality({j \in DOMAIN rows :
            \/ rows[j].calories_per_100g > rows[i].calories_per_100g
            \/ rows[j].calories_per_100g = rows[i].calories_per_100g /\ j < i})

RankSmallest(rows, i) ==
    1 + Cardinality({j \in DOMAIN rows :
            \/ rows[j].calories_per_100g < rows[i].calories_per_100g
            \/ rows[j].calories_per_100g = rows[i].calories_per_100g /\ j < i})

\* DataFrame.nlargest(n, 'calories_per_100g')
nlargest(n, rows) ==
    [r \in 1..Min2(n, Len(rows)) |->
        rows[CHOOSE i \in DOMAIN rows : RankLargest(rows, i) = r]]

\* DataFrame.nsmallest(n, 'calories_per_100g')
nsmallest(n, rows) ==
    [r \in 1..Min2(n, Len(rows)) |->
        rows[CHOOSE i \in DOMAIN rows : RankSmallest(rows, i) = r]]

\* [['food_item', 'calories_per_100g']].to_dict('records')
to_records(rows) ==
    [i \in DOMAIN rows |->
        [food_item |-> rows[i].food_item, calories_per_100g |-> rows[i].calories_per_100g]]

series_sum(rows) == Float(SeqSum(column(rows)), 1)

series_mean(rows) == Float(SeqSum(column(rows)), Len(rows))

\* the middle value of the sorted column, the mean of the two middle values when
\* the length is even
series_median(rows) ==
    LET sorted == column(nsmallest(Len(rows), rows))
        n == Len(rows)
    IN  IF n % 2 = 1 THEN Float(sorted[(n + 1) \div 2], 1)
        ELSE Float(sorted[n \div 2] + sorted[n \div 2 + 1], 2)

series_min(rows) ==
    Float(CHOOSE x \in {rows[i].calories_per_100g : i \in DOMAIN rows} :
              \A j \in DOMAIN rows : x <= rows[j].calories_per_100g, 1)

series_max(rows) ==
    Float(CHOOSE x \in {rows[i].calories_per_100g : i \in DOMAIN rows} :
              \A j \in DOMAIN rows : x >= rows[j].calories_per_100g, 1)

\* Series.std(), ddof = 1: sqrt(sum((x - mean)^2) / (n - 1))
\*   = sqrt((n * sum(x^2) - sum(x)^2) / (n * (n - 1)))
series_std(rows) ==
    LET n == Len(rows)
        xs == column(rows)
        sq == [i \in DOMAIN xs |-> xs[i] * xs[i]]
    IN  Sqrt(n * SeqSum(sq) - SeqSum(xs) * SeqSum(xs), n * (n - 1))

\* lines 94-128: the result dict from the locals the loop leaves
StatsResults(total_calories, stats) ==
    LET n_top_bottom_selected == Min2(Len(stats), n_top)
    IN  IF ~empty(stats)
        THEN [total_calories |-> Float(total_calories, Hundred),
              total_calories_in_selected_food_items_per_100g_sum |-> series_sum(stats),
              average_calories_per_100g |-> series_mean(stats),
              median_calories_per_100g |-> series_median(stats),
              min_calories_per_100g |-> series_min(stats),
              max_calories_per_100g |-> series_max(stats),
              std_deviation_calories_per_100g |->
                  IF Len(stats) > 1 THEN series_std(stats) ELSE NoneValue,
              highest_calorie_foods_in_selection |->
                  to_records(nlargest(n_top_bottom_selected, stats)),
              lowest_calorie_foods_in_selection |->
                  to_records(nsmallest(n_top_bottom_selected, stats))]
        ELSE [total_calories |-> Float(total_calories, Hundred),
              total_calories_in_selected_food_items_per_100g_sum |-> Float(0, 1),
              average_calories_per_100g |-> NoneValue,
              median_calories_per_100g |-> NoneValue,
              min_calories_per_100g |-> NoneValue,
              max_calories_per_100g |-> NoneValue,
              std_deviation_calories_per_100g |-> NoneValue,
              highest_calorie_foods_in_selection |-> <<>>,
              lowest_calorie_foods_in_selection |-> <<>>]

Results(acc, calorie_data_df) ==
    StatsResults(acc.total_calories,
                 selected_data_for_stats(calorie_data_df, acc.selected_food_items_list))

ErrorResult == [error |-> "Calorie data not loaded."]

TypeError == [exception |-> "TypeError"]

\* lines 61-128, the body after the guard of line 58
analyze_body(meal_items_, calorie_data_df) ==
    LET acc == Loop(LoopInit, meal_items_, 1, calorie_data_df)
    IN  IF acc.raised THEN TypeError ELSE Results(acc, calorie_data_df)

\* the analysis without the guard of line 58
analyze_meal_data_unguarded(meal_items_, calorie_data_df) ==
    analyze_body(meal_items_, calorie_data_df)

analyze_meal_data(meal_items_, calorie_data_df) ==
    IF empty(calorie_data_df)
    THEN ErrorResult
    ELSE analyze_body(meal_items_, calorie_data_df)

(***************************************************************************)
(* The requests the model sends.                                            *)
(***************************************************************************)
NameMissing == [t |-> "missing", v |-> <<>>]

Entry(name, quantity) == [food_item |-> name, quantity |-> quantity]

Names ==
    {NameMissing, PyStr(<<>>), PyStr(Apple), PyStr(apple), PyStr(Banana), PyStr(banana),
     PyStr(Mango)}

Quantities ==
    {JsonMissing, JsonNull, JsonString, JsonNumber(0), JsonNumber(-1), JsonNumber(2),
     JsonNumber(3)}

MealEntries == {Entry(name, q) : name \in Names, q \in Quantities}

HistEntries ==
    {Entry(PyStr(name), q) : name \in {Apple, apple, Mango}, q \in {JsonNull, JsonNumber(2)}}

SelEntries ==
    {Entry(PyStr(name), JsonNumber(1)) : name \in {Apple, apple, Banana, Rice, Egg, Milk, Oats}}

Tables == {EmptyFrame, ExampleTable, TiedTable}

(***************************************************************************)
(* The server: the table loaded at import, one request at a time.  first_call *)
(* and calls are history variables: the first analysis served and the number *)
(* of analyses served; only the tracked specification writes them.           *)
(***************************************************************************)
NoResponse == [none |-> TRUE]

NoCall ==
    [called |-> FALSE, meal_items |-> <<>>, response |-> NoResponse, calorie_data |-> <<>>]

\* a lookup that lowers the food_item column of the frame in place, as
\* calorie_data_df['food_item'] = calorie_data_df['food_item'].str.lower() would
frame_lowered_in_place(calorie_data_df) ==
    [i \in DOMAIN calorie_data_df |->
        [calorie_data_df[i] EXCEPT !.food_item = lower(@)]]

\* the frame after analyze_meal_data: .str.lower(), the boolean masks and isin
\* build new objects, nothing is assigned into calorie_data_df
frame_after_analysis(calorie_data_df) == calorie_data_df

InitFrom(tables) ==
    /\ calorie_data \in tables
    /\ route = "idle"
    /\ meal_items = <<>>
    /\ response = NoResponse
    /\ first_call = NoCall
    /\ calls = 0

\* POST /analyze with the body {"meal_items": items}
analyze_with(items, track) ==
    /\ track => calls < MaxCalls
    /\ calls' = IF track THEN calls + 1 ELSE calls
    /\ route' = "/analyze"
    /\ meal_items' = items
    /\ response' = analyze_meal_data(items, calorie_data)
    /\ calorie_data' = frame_after_analysis(calorie_data)
    /\ first_call' =
          IF track /\ ~first_call.called
          THEN [called |-> TRUE, meal_items |-> items, response |-> response',
                calorie_data |-> calorie_data]
          ELSE first_call

\* a body of at most n entries
analyze_request(entries, n, track) ==
    /\ route = "idle"
    /\ \E k \in 0..n : \E items \in [1..k -> entries] : analyze_with(items, track)

analyze == analyze_request(MealEntries, MaxEntries, FALSE)

analyze_tracked == analyze_request(HistEntries, MaxHistEntries, TRUE)

analyze_selection == analyze_request(SelEntries, MaxSelEntries, FALSE)

\* GET /
index ==
    /\ route = "idle"
    /\ route' = "/"
    /\ response' =
          [food_items |->
              IF ~empty(calorie_data)
              THEN [i \in DOMAIN calorie_data |-> calorie_data[i].food_item]
              ELSE <<>>]
    /\ UNCHANGED <<calorie_data, meal_items, first_call, calls>>

\* the response is returned and the request ends: nothing of it is kept
return_response ==
    /\ route # "idle"
    /\ route' = "idle"
    /\ meal_items' = <<>>
    /\ response' = NoResponse
    /\ UNCHANGED <<calorie_data, first_call, calls>>

Init == InitFrom(Tables)

Next == analyze \/ index \/ return_response

Spec == Init /\ [][Next]_vars

\* the same server, with the history of its analyses: the first one and the number
\* of them, at most MaxCalls
NextHist == analyze_tracked \/ index \/ return_response

SpecHist == Init /\ [][NextHist]_vars

\* the same server on the large table, every entry well formed
InitSel == InitFrom({LargeTable})

NextSel == analyze_selection \/ index \/ return_response

SpecSel == InitSel /\ [][NextSel]_vars

(***************************************************************************)
(* The vocabulary of the claims.                                            *)
(***************************************************************************)
Analyzed == route = "/analyze"

IsResult(r) == "total_calories" \in DOMAIN r

HasName(item) == item.food_item.t = "str" /\ Len(item.food_item.v) > 0

PositiveQuantity(item) == item.quantity.t = "num" /\ item.quantity.v > 0

\* the rows of the table the entry's name matches in some letter case
MatchingRows(item, df) ==
    IF item.food_item.t = "str"
    THEN {k \in DOMAIN df : lower(df[k].food_item) = lower(item.food_item.v)}
    ELSE {}

\* a non-empty name, a quantity > 0 and a case-insensitive match
Qualifies(item, df) ==
    HasName(item) /\ PositiveQuantity(item) /\ MatchingRows(item, df) # {}

MatchedRow(item, df) ==
    CHOOSE k \in MatchingRows(item, df) : \A j \in MatchingRows(item, df) : k <= j

\* sum over the qualifying entries of quantity * calories_per_100g, in hundredths
RECURSIVE ClaimedTotal(_, _)
ClaimedTotal(items, df) ==
    IF Len(items) = 0 THEN 0
    ELSE (IF Qualifies(Head(items), df)
          THEN Head(items).quantity.v * df[MatchedRow(Head(items), df)].calories_per_100g
          ELSE 0) + ClaimedTotal(Tail(items), df)

\* the distinct foods matched by at least one qualifying entry, as rows of the table
MatchedFoods(items, df) ==
    {k \in DOMAIN df : \E i \in DOMAIN items :
        Qualifies(items[i], df) /\ k \in MatchingRows(items[i], df)}

MatchedRows(items, df) ==
    LET keep == MatchedFoods(items, df)
        F[k \in 0..Len(df)] ==
            IF k = 0 THEN <<>>
            ELSE IF k \in keep THEN Append(F[k - 1], df[k]) ELSE F[k - 1]
    IN  F[Len(df)]

HasDefaults(r) ==
    /\ r.total_calories_in_selected_food_items_per_100g_sum = Float(0, 1)
    /\ r.average_calories_per_100g = NoneValue
    /\ r.median_calories_per_100g = NoneValue
    /\ r.min_calories_per_100g = NoneValue
    /\ r.max_calories_per_100g = NoneValue
    /\ r.std_deviation_calories_per_100g = NoneValue
    /\ r.highest_calorie_foods_in_selection = <<>>
    /\ r.lowest_calorie_foods_in_selection = <<>>

(***************************************************************************)
(* C1.                                                                      *)
(***************************************************************************)
\* C1: with an empty table every analysis, of any list of entries, returns the error
\* outcome: the result holds the error marker and no other field, neither
\* total_calories nor a statistic, so it differs from a result with the defaults.
C1_EmptyTableIsError ==
    (Analyzed /\ empty(calorie_data)) =>
        /\ DOMAIN response = {"error"}
        /\ response = ErrorResult

C1_Witness ==
    /\ Analyzed
    /\ empty(calorie_data)
    /\ \E i \in DOMAIN meal_items :
          HasName(meal_items[i]) /\ PositiveQuantity(meal_items[i])
    /\ "error" \in DOMAIN response

(***************************************************************************)
(* C2.                                                                      *)
(***************************************************************************)
\* C2: with a non-empty table every analysis returns a normal result, never an
\* exception and never the error outcome, whatever the entries' names and quantities
\* (missing, null, non-numeric, zero, negative), and the well-formed entries of the
\* list count in it.
C2_AlwaysAResult ==
    (Analyzed /\ ~empty(calorie_data)) =>
        /\ IsResult(response)
        /\ (\E i \in DOMAIN meal_items : Qualifies(meal_items[i], calorie_data))
              => response.total_calories.n > 0

(***************************************************************************)
(* C3.                                                                      *)
(***************************************************************************)
\* C3: with a non-empty table, for any list of entries, total_calories is the sum
\* over the qualifying entries (non-empty name, quantity > 0, case-insensitive
\* match) of quantity * calories_per_100g / 100, an entry counted as often as it
\* appears, and 0 when no entry qualifies.
C3_TotalCalories ==
    (Analyzed /\ ~empty(calorie_data)) =>
        /\ IsResult(response)
        /\ response.total_calories = Float(ClaimedTotal(meal_items, calorie_data), Hundred)

\* the part of C3 that holds: whenever the analysis returns a result, its
\* total_calories is that sum
C3_TotalOfEveryResult ==
    (Analyzed /\ ~empty(calorie_data) /\ IsResult(response)) =>
        response.total_calories = Float(ClaimedTotal(meal_items, calorie_data), Hundred)

(***************************************************************************)
(* C4.                                                                      *)
(***************************************************************************)
\* two lists that differ only in the letter case of the submitted names
SameButCase(items, others) ==
    /\ Len(others) = Len(items)
    /\ \A i \in DOMAIN items :
          /\ others[i].quantity = items[i].quantity
          /\ others[i].food_item.t = items[i].food_item.t
          /\ lower(others[i].food_item.v) = lower(items[i].food_item.v)

\* C4: matching is case-insensitive for the whole result: a list that differs from
\* the analysed one only in the letter case of its names gets the same result, field
\* by field.
C4_CaseInsensitiveResult ==
    (Analyzed /\ ~empty(calorie_data)) =>
        \A others \in [DOMAIN meal_items -> MealEntries] :
            SameButCase(meal_items, others)
                => analyze_meal_data(others, calorie_data) = response

\* the part of C4 that holds: total_calories does not depend on the letter case
C4_CaseInsensitiveTotal ==
    (Analyzed /\ ~empty(calorie_data) /\ IsResult(response)) =>
        \A others \in [DOMAIN meal_items -> MealEntries] :
            SameButCase(meal_items, others)
                => analyze_meal_data(others, calorie_data).total_calories
                       = response.total_calories

(***************************************************************************)
(* C5.                                                                      *)
(***************************************************************************)
\* C5: the statistics of a result are those of the table rows of the distinct foods
\* matched in the lookup pass, each row once: sum, average, median, min and max of
\* their calories_per_100g.
C5_StatsOverMatchedFoods ==
    (Analyzed /\ ~empty(calorie_data) /\ IsResult(response)) =>
        LET rows == MatchedRows(meal_items, calorie_data)
        IN  IF Len(rows) = 0
            THEN response.total_calories_in_selected_food_items_per_100g_sum = Float(0, 1)
            ELSE /\ response.total_calories_in_selected_food_items_per_100g_sum
                        = series_sum(rows)
                 /\ response.average_calories_per_100g = series_mean(rows)
                 /\ response.median_calories_per_100g = series_median(rows)
                 /\ response.min_calories_per_100g = series_min(rows)
                 /\ response.max_calories_per_100g = series_max(rows)

(***************************************************************************)
(* C6.                                                                      *)
(***************************************************************************)
\* C6: in every result the standard deviation is absent when 0 or 1 distinct foods
\* matched and is a value when 2 or more matched.
C6_StdDeviationDefined ==
    (Analyzed /\ ~empty(calorie_data) /\ IsResult(response)) =>
        (response.std_deviation_calories_per_100g = NoneValue
            <=> Cardinality(MatchedFoods(meal_items, calorie_data)) <= 1)

(***************************************************************************)
(* C7.                                                                      *)
(***************************************************************************)
NonIncreasing(records) ==
    \A i, j \in DOMAIN records :
        i < j => records[i].calories_per_100g >= records[j].calories_per_100g

NonDecreasing(records) ==
    \A i, j \in DOMAIN records :
        i < j => records[i].calories_per_100g <= records[j].calories_per_100g

Listed(records, row) == \E i \in DOMAIN records : records[i].food_item = row.food_item

\* C7: in every result the highest and the lowest list have min(5, number of distinct
\* matched foods) elements; the highest list is in non-increasing order and holds the
\* largest values of the matched rows, the lowest list is in non-decreasing order and
\* holds the smallest.
C7_TopAndBottomLists ==
    (Analyzed /\ ~empty(calorie_data) /\ IsResult(response)) =>
        LET rows == MatchedRows(meal_items, calorie_data)
            highest == response.highest_calorie_foods_in_selection
            lowest == response.lowest_calorie_foods_in_selection
        IN  /\ Len(highest) = Min2(n_top, Len(rows))
            /\ Len(lowest) = Min2(n_top, Len(rows))
            /\ NonIncreasing(highest)
            /\ NonDecreasing(lowest)
            /\ \A k \in DOMAIN rows : \A i \in DOMAIN highest :
                  Listed(highest, rows[k])
                      \/ highest[i].calories_per_100g >= rows[k].calories_per_100g
            /\ \A k \in DOMAIN rows : \A i \in DOMAIN lowest :
                  Listed(lowest, rows[k])
                      \/ lowest[i].calories_per_100g <= rows[k].calories_per_100g

\* the part of C7 that holds: the same, over the rows whose stored name was submitted
\* letter for letter
C7_ListsOfSelectedRows ==
    (Analyzed /\ ~empty(calorie_data) /\ IsResult(response)) =>
        LET rows == SelectSeq(calorie_data,
                        LAMBDA row : \E i \in DOMAIN meal_items :
                            /\ Qualifies(meal_items[i], calorie_data)
                            /\ meal_items[i].food_item.v = row.food_item)
            highest == response.highest_calorie_foods_in_selection
            lowest == response.lowest_calorie_foods_in_selection
        IN  /\ Len(highest) = Min2(n_top, Len(rows))
            /\ Len(lowest) = Min2(n_top, Len(rows))
            /\ NonIncreasing(highest)
            /\ NonDecreasing(lowest)
            /\ \A k \in DOMAIN rows : \A i \in DOMAIN highest :
                  Listed(highest, rows[k])
                      \/ highest[i].calories_per_100g >= rows[k].calories_per_100g
            /\ \A k \in DOMAIN rows : \A i \in DOMAIN lowest :
                  Listed(lowest, rows[k])
                      \/ lowest[i].calories_per_100g <= rows[k].calories_per_100g

\* a result whose lists are cut to n_top
C7_SixSelected ==
    /\ Analyzed
    /\ IsResult(response)
    /\ Len(response.highest_calorie_foods_in_selection) = n_top
    /\ response.total_calories_in_selected_food_items_per_100g_sum
          = Float(52 + 89 + 130 + 155 + 42 + 89, 1)

(***************************************************************************)
(* C8.                                                                      *)
(***************************************************************************)
\* C8: a result carries the no-data defaults exactly when no entry matched, and then
\* total_calories is 0; a result with total_calories > 0 never carries the defaults.
C8_DefaultsIffNoMatch ==
    (Analyzed /\ ~empty(calorie_data) /\ IsResult(response)) =>
        /\ HasDefaults(response) <=> MatchedFoods(meal_items, calorie_data) = {}
        /\ MatchedFoods(meal_items, calorie_data) = {} => response.total_calories.n = 0
        /\ response.total_calories.n > 0 => ~HasDefaults(response)

(***************************************************************************)
(* C9.                                                                      *)
(***************************************************************************)
\* an entry the claim calls skipped: a quantity <= 0, or a name that matches no row in
\* any letter case
ClaimedSkipped(item, df) ==
    \/ item.quantity.t = "num" /\ item.quantity.v <= 0
    \/ item.food_item.t = "str" /\ MatchingRows(item, df) = {}

WithoutSkipped(items, df) == SelectSeq(items, LAMBDA item : ~ClaimedSkipped(item, df))

\* C9: a skipped entry has no effect and raises nothing: processing it leaves the
\* running total and the list of matched foods as they were, and the result of a list
\* is the result of the list without its skipped entries.
C9_SkippedEntryNoEffect ==
    (Analyzed /\ ~empty(calorie_data)) =>
        /\ \A i \in DOMAIN meal_items :
              ClaimedSkipped(meal_items[i], calorie_data) =>
                  LET before == Loop(LoopInit, SubSeq(meal_items, 1, i - 1), 1, calorie_data)
                  IN  LoopBody(before, meal_items[i], calorie_data) = before
        /\ response = analyze_meal_data(WithoutSkipped(meal_items, calorie_data), calorie_data)

\* the part of C9 that holds: the same for the skipped entries whose quantity is a
\* number
C9_NumericSkippedEntryNoEffect ==
    (Analyzed /\ ~empty(calorie_data)) =>
        LET skipped(item) ==
                /\ ClaimedSkipped(item, calorie_data)
                /\ item.quantity.t = "num"
        IN  /\ \A i \in DOMAIN meal_items :
                  skipped(meal_items[i]) =>
                      LET before ==
                              Loop(LoopInit, SubSeq(meal_items, 1, i - 1), 1, calorie_data)
                      IN  LoopBody(before, meal_items[i], calorie_data) = before
            /\ response = analyze_meal_data(
                              SelectSeq(meal_items, LAMBDA item : ~skipped(item)),
                              calorie_data)

(***************************************************************************)
(* C10.                                                                     *)
(***************************************************************************)
\* C10: analyze_meal_data keeps no hidden state: after any analyses, the table is the
\* one the first analysis read, and an analysis of the entries of the first analysis
\* returns what the first analysis returned.
C10_NoHiddenState ==
    first_call.called =>
        /\ calorie_data = first_call.calorie_data
        /\ (Analyzed /\ meal_items = first_call.meal_items)
              => response = first_call.response

\* a later analysis, of the entries of the first, that matched a food
C10_Witness ==
    /\ Analyzed
    /\ calls >= 2
    /\ meal_items = first_call.meal_items
    /\ IsResult(response)
    /\ response.total_calories.n > 0
    /\ ~HasDefaults(response)

====
